---- MODULE Spec2Model ----
(***************************************************************************)
(* Model of the login webview provider (CommonAuthViewProvider) and of the *)
(* Notifications workflow.                                                 *)
(*                                                                         *)
(* The provider is modelled as the state of one provider object, the       *)
(* webview views the host resolves with it, and one record per invocation  *)
(* of the onDidChangeVisibility callback.  The callback is an async        *)
(* function: the part up to its first await runs inside the event, each    *)
(* continuation runs when the awaited backend promise settles, which may   *)
(* be after any number of later events.                                    *)
(***************************************************************************)
EXTENDS Integers, Sequences, FiniteSets, TLC

\* ------------------------------------------------------------------ bounds
\* Number of calls the host makes into the provider in one behaviour:
\* resolveWebviewView calls plus visibility-change events.
MaxHostCalls == 4

\* ------------------------------------------------------- values and inputs
Undefined == "undefined"
NoChange == "nochange"
NoError == "none"

\* App identifiers handed to the constructor.
Apps == {"toolkit", "amazonq", "Toolkit", "codewhisperer", ""}

\* Values of process.env.WEBPACK_DEVELOPER_SERVER.
ServerHostnames == {Undefined, "http://localhost:8080", "http://127.0.0.1:8080/static"}

\* The static sourcePath members of the two backends (declared in
\* backend_toolkit / backend_amazonq); kept symbolic.
ToolkitSourcePath == "ToolkitLoginWebview.sourcePath"
AmazonQSourcePath == "AmazonQLoginWebview.sourcePath"

\* The compiled panels.
ToolkitPanel == "Panel(ToolkitLoginWebview)"
AmazonQPanel == "Panel(AmazonQLoginWebview)"

\* AuthFlowStates values getAuthState can resolve to.
AuthFlowStates == {"LOGIN", "REAUTHNEEDED", "REAUTHENTICATING"}

\* AuthSources.vscodeComponent and a source set by another component.
VscodeComponent == "vscodeComponent"
OtherAuthSources == {"codecatalystDeveloperTools"}

\* Results of getTelemetryMetadataForConn(AuthUtil.instance.conn).
ConnMetadata ==
    { [credentialSourceId |-> "iamIdentityCenter"],
      [credentialSourceId |-> "awsId"] }

\* ---------------------------------------------------------------- Uri model
ExtensionUri == [scheme |-> "file", authority |-> "", path |-> "/ext"]

\* Uri.joinPath(base, seg): appends one path segment.
JoinPath(u, seg) == [u EXCEPT !.path = @ \o "/" \o seg]

\* webview.asWebviewUri(u): the resource is served from the webview origin.
AsWebviewUri(u) ==
    [scheme |-> "https",
     authority |-> "file+.vscode-resource.vscode-cdn.net",
     path |-> u.path]

\* Uri.parse on the values of ServerHostnames.
UriParse(s) ==
    CASE s = "http://localhost:8080" ->
            [scheme |-> "http", authority |-> "localhost:8080", path |-> ""]
      [] s = "http://127.0.0.1:8080/static" ->
            [scheme |-> "http", authority |-> "127.0.0.1:8080", path |-> "/static"]

\* uri.with({ path: p })
WithPath(u, p) == [u EXCEPT !.path = p]

\* uri.toString()
UriToString(u) == u.scheme \o "://" \o u.authority \o u.path

\* const entrypoint = serverHostname !== undefined ? Uri.parse(..).with(..) : scriptUri
Entrypoint_DevServerIgnored(host, src) ==
    AsWebviewUri(JoinPath(JoinPath(ExtensionUri, "dist"), src))

Entrypoint(host, src) ==
    IF host # Undefined
      THEN WithPath(UriParse(host), "/" \o src)
      ELSE AsWebviewUri(JoinPath(JoinPath(ExtensionUri, "dist"), src))

VueScript == AsWebviewUri(JoinPath(JoinPath(JoinPath(ExtensionUri, "dist"), "libs"), "vue.min.js"))

\* _getHtmlForWebview: the src attributes of the script tags, in document order.
GetHtmlForWebview(host, src) ==
    [scripts |-> << UriToString(VueScript), UriToString(Entrypoint(host, src)) >>]

NoHtml == [scripts |-> << >>]

\* ------------------------------------------------------------- constructor
\* The if / else-if / else chain of the constructor.
SelectVariant_AnyAppAccepted(a) ==
    IF a = "amazonq"
      THEN [threw |-> FALSE, webView |-> AmazonQPanel, source |-> AmazonQSourcePath]
      ELSE [threw |-> FALSE, webView |-> ToolkitPanel, source |-> ToolkitSourcePath]

SelectVariant_Mixed(a) ==
    IF a = "toolkit"
      THEN [threw |-> FALSE, webView |-> ToolkitPanel, source |-> AmazonQSourcePath]
      ELSE IF a = "amazonq"
        THEN [threw |-> FALSE, webView |-> AmazonQPanel, source |-> AmazonQSourcePath]
        ELSE [threw |-> TRUE, webView |-> Undefined, source |-> ""]

SelectVariant(a) ==
    IF a = "toolkit"
      THEN [threw |-> FALSE, webView |-> ToolkitPanel, source |-> ToolkitSourcePath]
      ELSE IF a = "amazonq"
        THEN [threw |-> FALSE, webView |-> AmazonQPanel, source |-> AmazonQSourcePath]
        ELSE [threw |-> TRUE, webView |-> Undefined, source |-> ""]

\* ------------------------------------------------------------------- state
VARIABLES
    ctor,            \* "none" | "ok" | "threw": outcome of the constructor call
    app,             \* readonly app
    hasEmitter,      \* whether onDidChangeVisibility was supplied
    error,           \* message of the Error the constructor threw
    viewType,        \* this.viewType
    webView,         \* this.webView
    source,          \* this.source
    serverHostname,  \* process.env.WEBPACK_DEVELOPER_SERVER
    views,           \* the WebviewViews resolved so far; the last one is live
    handlers,        \* one record per onDidChangeVisibility callback invocation
    fired,           \* values fired on the external visibility emitter
    authSource,      \* this.webView.server.authSource
    ci               \* one run of the Notifications workflow

vars == << ctor, app, hasEmitter, error, viewType, webView, source, serverHostname,
           views, handlers, fired, authSource, ci >>

providerVars == << ctor, app, hasEmitter, error, viewType, webView, source,
                   serverHostname, views, handlers, fired, authSource >>

\* ------------------------------------------------------ effects of the code
\* One telemetry emission, backend call or field write: what was done, with what.
Entry(op, arg) == [op |-> op, arg |-> arg]

\* telemetry.auth_signInPageOpened.emit({ result: 'Succeeded', passive: true, source })
SignInPageOpened ==
    Entry("auth_signInPageOpened", [result |-> "Succeeded", passive |-> TRUE])

\* telemetry.auth_signInPageClosed.emit({ result: 'Succeeded', passive: true })
SignInPageClosed ==
    Entry("auth_signInPageClosed", [result |-> "Succeeded", passive |-> TRUE])

StoreMetricMetadata(data) == Entry("storeMetricMetadata", data)

\* { ...a, ...b }: the keys of b override those of a.
Spread(a, b) ==
    [k \in (DOMAIN a) \cup (DOMAIN b) |-> IF k \in DOMAIN b THEN b[k] ELSE a[k]]

\* authState === AuthFlowStates.REAUTHNEEDED || authState === AuthFlowStates.REAUTHENTICATING
IsReAuth_OnlyReauthNeeded(authState) == authState = "REAUTHNEEDED"

IsReAuth(authState) ==
    authState = "REAUTHNEEDED" \/ authState = "REAUTHENTICATING"

\* What the visible branch of the callback does before the fire.
VisibleBranch_AlsoCloses == << SignInPageOpened, SignInPageClosed >>

VisibleBranch == << SignInPageOpened >>

\* What the hidden branch of the callback does up to its first await.
HiddenBranchStart ==
    << SignInPageClosed, Entry("getAuthState", [call |-> TRUE]) >>

\* The statements of the hidden branch after the isReAuth metadata is known:
\* storeMetricMetadata, emitAuthMetric, cancelAuthFlow, authSource = vscodeComponent.
HiddenBranchTail_CancelFirst(data) ==
    << StoreMetricMetadata(data),
       Entry("cancelAuthFlow", [call |-> TRUE]),
       Entry("authSource", [value |-> VscodeComponent]),
       Entry("emitAuthMetric", [call |-> TRUE]) >>

HiddenBranchTail(data) ==
    << StoreMetricMetadata(data),
       Entry("emitAuthMetric", [call |-> TRUE]),
       Entry("cancelAuthFlow", [call |-> TRUE]),
       Entry("authSource", [value |-> VscodeComponent]) >>

\* this.onDidChangeVisibility?.fire(webviewView.visible), with the visibility
\* the view has when the statement runs.
Fire(visibleNow) ==
    IF hasEmitter THEN << Entry("fire", [visible |-> visibleNow]) >> ELSE << >>

FiredAfter(visibleNow) ==
    IF hasEmitter THEN Append(fired, visibleNow) ELSE fired

\* -------------------------------------------------------------------- Init
CIIdle ==
    [pc |-> "idle", event_name |-> "", action |-> "", base_ref |-> << >>,
     repository |-> "", done |-> << >>, notified |-> FALSE]

InitProvider ==
    /\ ctor = "none"
    /\ app = ""
    /\ hasEmitter = FALSE
    /\ error = NoError
    /\ viewType = ""
    /\ webView = Undefined
    /\ source = ""
    /\ views = << >>
    /\ handlers = << >>
    /\ fired = << >>
    /\ authSource = VscodeComponent

Init ==
    /\ InitProvider
    /\ serverHostname \in ServerHostnames
    /\ ci = CIIdle

\* ------------------------------------------------------------- constructor
\* new CommonAuthViewProvider(extensionContext, a, e ? emitter : undefined)
Construct(a, e) ==
    /\ ctor = "none"
    /\ app' = a
    /\ hasEmitter' = e
    /\ viewType' = "aws." \o a \o ".AmazonCommonAuth"
    /\ LET sel == SelectVariant(a) IN
         /\ webView' = sel.webView
         /\ source' = sel.source
         /\ ctor' = IF sel.threw THEN "threw" ELSE "ok"
         /\ error' = IF sel.threw
                       THEN "invalid app provided to common auth view: " \o a
                       ELSE NoError
    /\ UNCHANGED << serverHostname, views, handlers, fired, authSource, ci >>

\* ------------------------------------------------------ resolveWebviewView
Live == Len(views)

\* The synchronous part of resolveWebviewView, up to `await this.webView?.setup(..)`.
\* The host hands a fresh WebviewView, visible or not; the view resolved before
\* it is disposed and delivers no further events.
ResolveWebviewView(vis) ==
    /\ ctor = "ok"
    /\ Len(views) + Len(handlers) < MaxHostCalls
    /\ views' = Append(views, [visible |-> vis, visibleAtResolve |-> vis,
                               did |-> IF vis THEN << SignInPageOpened >> ELSE << >>,
                               pc |-> "awaitSetup", html |-> NoHtml])
    /\ UNCHANGED << ctor, app, hasEmitter, error, viewType, webView, source,
                    serverHostname, handlers, fired, authSource, ci >>

\* setup() resolved: webviewView.webview.html = this._getHtmlForWebview(..)
SetupResolved_ResetsSource(v) ==
    /\ v \in 1..Len(views)
    /\ views[v].pc = "awaitSetup"
    /\ views' = [views EXCEPT ![v].pc = "done",
                              ![v].html = GetHtmlForWebview(serverHostname, source)]
    /\ source' = ""
    /\ UNCHANGED << ctor, app, hasEmitter, error, viewType, webView,
                    serverHostname, handlers, fired, authSource, ci >>

SetupResolved(v) ==
    /\ v \in 1..Len(views)
    /\ views[v].pc = "awaitSetup"
    /\ views' = [views EXCEPT ![v].pc = "done",
                              ![v].html = GetHtmlForWebview(serverHostname, source)]
    /\ UNCHANGED << ctor, app, hasEmitter, error, viewType, webView, source,
                    serverHostname, handlers, fired, authSource, ci >>

\* setup() rejected: resolveWebviewView rejects and the html is never assigned.
SetupRejected(v) ==
    /\ v \in 1..Len(views)
    /\ views[v].pc = "awaitSetup"
    /\ views' = [views EXCEPT ![v].pc = "failed"]
    /\ UNCHANGED << ctor, app, hasEmitter, error, viewType, webView, source,
                    serverHostname, handlers, fired, authSource, ci >>

\* --------------------------------------------- onDidChangeVisibility callback
\* The login page is shown: whatever shows it may first set server.authSource
\* (src), then the view becomes visible and the callback runs its visible
\* branch, which has no await, to the end.
Show(src) ==
    /\ Live >= 1
    /\ ~views[Live].visible
    /\ Len(views) + Len(handlers) < MaxHostCalls
    /\ views' = [views EXCEPT ![Live].visible = TRUE]
    /\ authSource' = IF src = NoChange THEN authSource ELSE src
    /\ handlers' = Append(handlers, [view |-> Live, seen |-> TRUE, src |-> src,
                                     pc |-> "done", authState |-> Undefined,
                                     did |-> VisibleBranch \o Fire(TRUE)])
    /\ fired' = FiredAfter(TRUE)
    /\ UNCHANGED << ctor, app, hasEmitter, error, viewType, webView, source,
                    serverHostname, ci >>

\* The login page is hidden: the callback emits signInPageClosed, calls
\* getAuthState and suspends on its promise.
Hide ==
    /\ Live >= 1
    /\ views[Live].visible
    /\ Len(views) + Len(handlers) < MaxHostCalls
    /\ views' = [views EXCEPT ![Live].visible = FALSE]
    /\ handlers' = Append(handlers, [view |-> Live, seen |-> FALSE, src |-> NoChange,
                                     pc |-> "awaitAuthState", authState |-> Undefined,
                                     did |-> HiddenBranchStart])
    /\ UNCHANGED << ctor, app, hasEmitter, error, viewType, webView, source,
                    serverHostname, fired, authSource, ci >>

\* The rest of the hidden branch once the metadata to store is known, and the fire.
FinishHidden(h, s, before, data) ==
    LET visibleNow == views[handlers[h].view].visible IN
    /\ handlers' = [handlers EXCEPT
                      ![h].pc = "done",
                      ![h].authState = s,
                      ![h].did = @ \o before \o HiddenBranchTail(data) \o Fire(visibleNow)]
    /\ authSource' = VscodeComponent
    /\ fired' = FiredAfter(visibleNow)

\* getAuthState() resolved with s.
AuthStateResolved(h, s) ==
    /\ h \in 1..Len(handlers)
    /\ handlers[h].pc = "awaitAuthState"
    /\ LET cancelled == << StoreMetricMetadata([result |-> "Cancelled"]) >> IN
       IF IsReAuth(s)
         THEN /\ handlers' = [handlers EXCEPT
                      ![h].pc = "awaitConnMeta",
                      ![h].authState = s,
                      ![h].did = @ \o cancelled
                                   \o << Entry("getTelemetryMetadataForConn", [call |-> TRUE]) >>]
              /\ UNCHANGED << authSource, fired >>
         ELSE FinishHidden(h, s, cancelled, [isReAuth |-> FALSE])
    /\ UNCHANGED << ctor, app, hasEmitter, error, viewType, webView, source,
                    serverHostname, views, ci >>

\* getTelemetryMetadataForConn() resolved with m.
ConnMetaResolved(h, m) ==
    /\ h \in 1..Len(handlers)
    /\ handlers[h].pc = "awaitConnMeta"
    /\ FinishHidden(h, handlers[h].authState, << >>, Spread([isReAuth |-> TRUE], m))
    /\ UNCHANGED << ctor, app, hasEmitter, error, viewType, webView, source,
                    serverHostname, views, ci >>

\* An awaited backend promise rejected: the callback ends there.
BackendRejected(h) ==
    /\ h \in 1..Len(handlers)
    /\ handlers[h].pc \in {"awaitAuthState", "awaitConnMeta"}
    /\ handlers' = [handlers EXCEPT ![h].pc = "rejected"]
    /\ UNCHANGED << ctor, app, hasEmitter, error, viewType, webView, source,
                    serverHostname, views, fired, authSource, ci >>

Next ==
    \/ \E a \in Apps, e \in BOOLEAN : Construct(a, e)
    \/ \E vis \in BOOLEAN : ResolveWebviewView(vis)
    \/ \E v \in 1..MaxHostCalls : SetupResolved(v)
    \/ \E v \in 1..MaxHostCalls : SetupRejected(v)
    \/ \E src \in OtherAuthSources \cup {NoChange} : Show(src)
    \/ Hide
    \/ \E h \in 1..MaxHostCalls, s \in AuthFlowStates : AuthStateResolved(h, s)
    \/ \E h \in 1..MaxHostCalls, m \in ConnMetadata : ConnMetaResolved(h, m)
    \/ \E h \in 1..MaxHostCalls : BackendRejected(h)

Spec == Init /\ [][Next]_vars

\* ---------------------------------------------------- Notifications workflow
\* Inputs: the event GitHub delivers, its activity type, the branch it targets
\* (split at '/') and the repository the workflow file lives in.
CIEventNames == {"pull_request_target", "pull_request", "push", "workflow_dispatch"}
CIActivityTypes == {"opened", "synchronize", "reopened", "closed", "edited"}
CIBranches ==
    { << "master" >>, << "staging" >>, << "main" >>, << "feature" >>,
      << "feature", "login" >>, << "feature", "a", "b" >>, << "hotfix", "login" >> }
CIRepositories == {"aws/aws-toolkit-vscode", "ntarakad-aws/aws-toolkit-vscode"}

\* branches: [master, feature/*, staging]
BranchPatterns == { << "master" >>, << "feature", "*" >>, << "staging" >> }

\* Activity types a pull_request_target trigger without `types` reacts to.
DefaultActivityTypes == {"opened", "synchronize", "reopened"}

\* A branch filter pattern against a branch: '*' matches any run of characters
\* other than '/', so it stands for exactly one path segment.
BranchMatches(pat, b) ==
    /\ Len(pat) = Len(b)
    /\ \A i \in 1..Len(pat) : pat[i] = "*" \/ pat[i] = b[i]

\* on: pull_request_target: branches: [...]
WorkflowTriggered(c) ==
    /\ c.event_name = "pull_request_target"
    /\ c.action \in DefaultActivityTypes
    /\ \E pat \in BranchPatterns : BranchMatches(pat, c.base_ref)

\* jobs.notify.if
JobIf_Always(c) == TRUE

JobIf(c) == c.repository = "aws/aws-toolkit-vscode"

\* steps[*].if, with the implicit success() of a condition that names no status
\* function: no earlier step failed.
StepIf(c) ==
    /\ c.event_name = "pull_request_target"
    /\ \A i \in 1..Len(c.done) : c.done[i] # "failure"

\* checkout, setup-node, "Comment about contribution guidelines"
NumSteps == 3

\* GitHub delivers an event to the repository.
CIEvent(e, t, b, r) ==
    /\ ci.pc = "idle"
    /\ ci' = [ci EXCEPT !.pc = "event", !.event_name = e, !.action = t,
                        !.base_ref = b, !.repository = r]
    /\ UNCHANGED providerVars

\* The `on` section decides whether a workflow run is created.
CITrigger ==
    /\ ci.pc = "event"
    /\ ci' = [ci EXCEPT !.pc = IF WorkflowTriggered(ci) THEN "job" ELSE "ignored"]
    /\ UNCHANGED providerVars

\* The job's `if` decides whether the job runs or is skipped.
CIJob ==
    /\ ci.pc = "job"
    /\ ci' = [ci EXCEPT !.pc = IF JobIf(ci) THEN "steps" ELSE "skipped"]
    /\ UNCHANGED providerVars

\* The next step of the job: skipped unless its `if` holds, else run to `outcome`.
\* The last step is the one that executes the notification script.
CIStep(outcome) ==
    /\ ci.pc = "steps"
    /\ LET k == Len(ci.done) + 1
           runs == StepIf(ci)
       IN ci' = [ci EXCEPT
                   !.done = Append(@, IF runs THEN outcome ELSE "skipped"),
                   !.notified = (k = NumSteps /\ runs),
                   !.pc = IF k = NumSteps THEN "finished" ELSE "steps"]
    /\ UNCHANGED providerVars

\* concurrency: cancel-in-progress: a newer run of the same group cancels this one.
CICancel ==
    /\ ci.pc \in {"job", "steps"}
    /\ ci' = [ci EXCEPT !.pc = "cancelled"]
    /\ UNCHANGED providerVars

InitCI ==
    /\ InitProvider
    /\ serverHostname = Undefined
    /\ ci = CIIdle

NextCI ==
    \/ \E e \in CIEventNames, t \in CIActivityTypes, b \in CIBranches, r \in CIRepositories :
          CIEvent(e, t, b, r)
    \/ CITrigger
    \/ CIJob
    \/ \E outcome \in {"success", "failure"} : CIStep(outcome)
    \/ CICancel

SpecCI == InitCI /\ [][NextCI]_vars

\* ================================================================= claims
SupportedApps == {"toolkit", "amazonq"}

HideHandlers == { h \in 1..Len(handlers) : ~handlers[h].seen }
ShowHandlers == { h \in 1..Len(handlers) : handlers[h].seen }

\* The kind of one entry; the two shapes of storeMetricMetadata are told apart.
Kind(e) ==
    IF e.op = "storeMetricMetadata"
      THEN IF "result" \in DOMAIN e.arg
             THEN "storeMetricMetadata.result"
             ELSE "storeMetricMetadata.isReAuth"
      ELSE e.op

Kinds(did) == [i \in 1..Len(did) |-> Kind(did[i])]

IsPrefix(a, b) == Len(a) <= Len(b) /\ \A i \in 1..Len(a) : a[i] = b[i]

Count(did, k) == Cardinality({ i \in 1..Len(did) : Kind(did[i]) = k })

\* C1: constructing the provider with an app other than 'toolkit' or 'amazonq'
\* always throws 'invalid app provided to common auth view'; afterwards no panel
\* was created, no bundle source was selected and no provider exists to resolve
\* a view with.
C1_InvalidAppThrows ==
    (ctor # "none" /\ app \notin SupportedApps) =>
        /\ ctor = "threw"
        /\ error = "invalid app provided to common auth view: " \o app
        /\ webView = Undefined
        /\ source = ""
        /\ views = << >>

C1_Witness == ctor = "threw" /\ app = "Toolkit"

\* C2: constructing with 'toolkit' or 'amazonq' always succeeds and selects the
\* matching bundle and panel, never a mix of the two, and viewType is
\* 'aws.<app>.AmazonCommonAuth'.
C2_SupportedAppSelectsBundle ==
    (ctor # "none" /\ app \in SupportedApps) =>
        /\ ctor = "ok"
        /\ error = NoError
        /\ app = "toolkit" =>
              /\ source = ToolkitSourcePath
              /\ webView = ToolkitPanel
              /\ viewType = "aws.toolkit.AmazonCommonAuth"
        /\ app = "amazonq" =>
              /\ source = AmazonQSourcePath
              /\ webView = AmazonQPanel
              /\ viewType = "aws.amazonq.AmazonCommonAuth"

C2_Witness == ctor = "ok" /\ app = "toolkit" /\ source = ToolkitSourcePath

C3_ExpectedEntrypoint ==
    CASE serverHostname = Undefined ->
            "https://file+.vscode-resource.vscode-cdn.net/ext/dist/" \o source
      [] serverHostname = "http://localhost:8080" ->
            "http://localhost:8080/" \o source
      [] serverHostname = "http://127.0.0.1:8080/static" ->
            "http://127.0.0.1:8080/" \o source

\* C3: the html assigned by resolveWebviewView embeds exactly two script sources:
\* the Vue runtime, the same whatever the environment variable, and the
\* entrypoint, which is the webview URI of dist/<source> when
\* WEBPACK_DEVELOPER_SERVER is undefined and the development-server URI with its
\* path replaced by /<source> when it is defined.
C3_HtmlScripts ==
    \A v \in 1..Len(views) :
        views[v].pc = "done" =>
            /\ Len(views[v].html.scripts) = 2
            /\ views[v].html.scripts[1] =
                 "https://file+.vscode-resource.vscode-cdn.net/ext/dist/libs/vue.min.js"
            /\ views[v].html.scripts[2] = C3_ExpectedEntrypoint

C3_Witness ==
    /\ serverHostname = "http://127.0.0.1:8080/static"
    /\ \E v \in 1..Len(views) : views[v].pc = "done" /\ Len(views[v].html.scripts) = 2

\* C4: once the constructor has run, no resolveWebviewView call, visibility
\* event or backend continuation changes source or webView.
C4_FieldsSetOnce ==
    [][ctor # "none" => (source' = source /\ webView' = webView)]_vars

C4_Witness ==
    /\ ctor = "ok"
    /\ source = AmazonQSourcePath
    /\ webView = AmazonQPanel
    /\ Len(views) = 2
    /\ views[1].pc = "done"
    /\ \E h \in HideHandlers : handlers[h].pc = "done"
    /\ \E h \in ShowHandlers : h > 1

\* C5: the notification script step runs only for a pull_request_target event
\* whose target branch is master, staging or feature/<one segment>, in the
\* repository aws/aws-toolkit-vscode.
C5_NotifyOnlyWhenTriggered ==
    ci.notified =>
        /\ ci.event_name = "pull_request_target"
        /\ \/ ci.base_ref = << "master" >>
           \/ ci.base_ref = << "staging" >>
           \/ (Len(ci.base_ref) = 2 /\ ci.base_ref[1] = "feature")
        /\ ci.repository = "aws/aws-toolkit-vscode"

C5_Witness == ci.notified /\ ci.base_ref = << "feature", "login" >>

C6_Listed(k) == k # "getTelemetryMetadataForConn"

C6_Steps ==
    << "auth_signInPageClosed", "getAuthState", "storeMetricMetadata.result",
       "storeMetricMetadata.isReAuth", "emitAuthMetric", "cancelAuthFlow", "authSource" >>
    \o (IF hasEmitter THEN << "fire" >> ELSE << >>)

\* C6: a callback invocation that finds the view hidden performs, in this order
\* and each once: signInPageClosed, getAuthState, storeMetricMetadata with
\* result 'Cancelled', storeMetricMetadata with isReAuth, emitAuthMetric,
\* cancelAuthFlow, authSource = vscodeComponent, and the fire of the emitter
\* when one was supplied; while it is suspended it has performed a prefix of
\* them.
C6_HiddenBranchOrder ==
    \A h \in HideHandlers :
        LET done == SelectSeq(Kinds(handlers[h].did), C6_Listed) IN
        /\ IsPrefix(done, C6_Steps)
        /\ handlers[h].pc = "done" => done = C6_Steps
        /\ \A i \in 1..Len(handlers[h].did) :
              LET e == handlers[h].did[i] IN
              /\ Kind(e) = "storeMetricMetadata.result" => e.arg = [result |-> "Cancelled"]
              /\ Kind(e) = "authSource" => e.arg.value = VscodeComponent

C6_Witness ==
    /\ hasEmitter
    /\ \E h \in HideHandlers : handlers[h].pc = "done" /\ handlers[h].authState = "REAUTHNEEDED"
    /\ \E h \in HideHandlers : handlers[h].pc = "done" /\ handlers[h].authState = "LOGIN"

\* C7: resolveWebviewView emits signInPageOpened once if the view is visible at
\* resolution and not at all otherwise; an invocation that finds the view
\* visible emits signInPageOpened once and does nothing else but the fire; an
\* invocation that finds it hidden emits signInPageClosed once and no
\* signInPageOpened.
C7_OpenedOncePerShow ==
    /\ \A v \in 1..Len(views) :
          Kinds(views[v].did) =
             IF views[v].visibleAtResolve THEN << "auth_signInPageOpened" >> ELSE << >>
    /\ \A h \in ShowHandlers :
          Kinds(handlers[h].did) =
             << "auth_signInPageOpened" >> \o (IF hasEmitter THEN << "fire" >> ELSE << >>)
    /\ \A h \in HideHandlers :
          /\ Count(handlers[h].did, "auth_signInPageClosed") = 1
          /\ Count(handlers[h].did, "auth_signInPageOpened") = 0

C7_Witness ==
    /\ Len(views) >= 1
    /\ views[1].visibleAtResolve
    /\ \E h \in ShowHandlers : TRUE
    /\ \E h \in HideHandlers : handlers[h].pc = "done"

\* C8: the isReAuth metadata a hidden-branch invocation stores before
\* emitAuthMetric is true exactly when getAuthState returned REAUTHNEEDED or
\* REAUTHENTICATING, and the connection metadata is stored with it exactly then.
C8_IsReAuthMatchesState ==
    \A h \in HideHandlers :
        LET did == handlers[h].did
            reauth == handlers[h].authState \in {"REAUTHNEEDED", "REAUTHENTICATING"}
        IN
        /\ handlers[h].pc = "done" => Count(did, "storeMetricMetadata.isReAuth") = 1
        /\ \A i \in 1..Len(did) :
              Kind(did[i]) = "storeMetricMetadata.isReAuth" =>
                 /\ did[i].arg.isReAuth = reauth
                 /\ ("credentialSourceId" \in DOMAIN did[i].arg) = reauth
                 /\ \A j \in 1..Len(did) : Kind(did[j]) = "emitAuthMetric" => i < j

C8_Witness ==
    /\ \E h \in HideHandlers : handlers[h].pc = "done" /\ handlers[h].authState = "REAUTHENTICATING"
    /\ \E h \in HideHandlers : handlers[h].pc = "done" /\ handlers[h].authState = "LOGIN"

AllDone == \A h \in 1..Len(handlers) : handlers[h].pc = "done"

\* C9: once every callback invocation has finished, if the last event was the
\* view being shown by a component that set authSource, authSource is the value
\* that component set.
C9_ShownSourceSurvives ==
    (/\ Len(handlers) >= 1
     /\ AllDone
     /\ handlers[Len(handlers)].seen
     /\ handlers[Len(handlers)].src # NoChange)
    => authSource = handlers[Len(handlers)].src

\* C10: with an emitter supplied and every invocation finished, the values fired
\* on the emitter are the visibilities the events found, in the order of the
\* events.
C10_RelayedInOrder ==
    (hasEmitter /\ AllDone) =>
        fired = [i \in 1..Len(handlers) |-> handlers[i].seen]

====
